---- MODULE Spec2Model ----
(***************************************************************************)
(* Model of scripts/simulate_siem_traffic.py: the SIEM traffic simulator.  *)
(* Strings are TLA+ strings; time is in milliseconds.                      *)
(***************************************************************************)
EXTENDS Integers, Sequences, FiniteSets, TLC

(* ---------------------------------------------------------------------- *)
(* Bounds of the model                                                     *)
(* ---------------------------------------------------------------------- *)

\* number of loop iterations explored (the loop itself is unbounded)
MaxIter == 2

(* ---------------------------------------------------------------------- *)
(* Configuration and reference data                                        *)
(* ---------------------------------------------------------------------- *)

API_URL == "http://localhost:3001/api/logs"
INTERVAL_MIN == 500
INTERVAL_MAX == 3000
POST_TIMEOUT == 2000

AGENTS ==
  << [name |-> "Win-DC01", ip |-> "10.0.0.5", os |-> "Windows Server 2022", type |-> "wazuh-agent"],
     [name |-> "Win-FileServer", ip |-> "10.0.0.6", os |-> "Windows Server 2019", type |-> "wazuh-agent"],
     [name |-> "Ubuntu-Web01", ip |-> "10.0.0.20", os |-> "Ubuntu 22.04 LTS", type |-> "wazuh-agent"],
     [name |-> "Gateway-Firewall", ip |-> "192.168.1.1", os |-> "Cisco ASA", type |-> "firewall"],
     [name |-> "Core-Switch", ip |-> "192.168.1.2", os |-> "Cisco IOS", type |-> "network"],
     [name |-> "Suricata-IDS", ip |-> "10.0.0.100", os |-> "Suricata", type |-> "ids"] >>

EXTERNAL_IPS ==
  << "45.2.1.12", "185.33.22.10", "220.12.55.99", "1.1.1.1", "8.8.8.8", "210.10.10.2", "198.51.100.23" >>

USERS == << "admin", "jsmith", "bwayne", "pve", "system", "service_account" >>

(* ---------------------------------------------------------------------- *)
(* Python primitives used by the script                                    *)
(* ---------------------------------------------------------------------- *)

\* random.choice(seq): any element of the sequence
Choice(seq) == { seq[i] : i \in 1..Len(seq) }

\* random.randint(lo, hi): sampled at both ends of the closed range
RandInt(lo, hi) == { lo, hi }

\* random.random() > 0.5
CoinFlip == { TRUE, FALSE }

\* random.uniform(a, b): sampled at both ends of the range
Uniform(a, b) == { a, b }

\* needle in hay (substring test on str)
Contains(needle, hay) ==
  \E i \in 1..(Len(hay) - Len(needle) + 1) : SubSeq(hay, i, i + Len(needle) - 1) = needle

\* s.endswith(suffix)
EndsWith(s, suffix) ==
  /\ Len(s) >= Len(suffix)
  /\ SubSeq(s, Len(s) - Len(suffix) + 1, Len(s)) = suffix

UpperLetters == "ABCDEFGHIJKLMNOPQRSTUVWXYZ"
LowerLetters == "abcdefghijklmnopqrstuvwxyz"

LowerChar(c) ==
  IF \E i \in 1..Len(UpperLetters) : SubSeq(UpperLetters, i, i) = c
    THEN LET i == CHOOSE j \in 1..Len(UpperLetters) : SubSeq(UpperLetters, j, j) = c
         IN  SubSeq(LowerLetters, i, i)
    ELSE c

\* str.lower()
RECURSIVE Lower(_)
Lower(s) ==
  IF Len(s) = 0 THEN "" ELSE LowerChar(SubSeq(s, 1, 1)) \o Lower(SubSeq(s, 2, Len(s)))

\* format(n, "0<w>d") for a non-negative n
RECURSIVE ZeroPad(_, _)
ZeroPad(n, w) ==
  IF Len(ToString(n)) >= w THEN ToString(n) ELSE "0" \o ZeroPad(n, w - 1)

\* uuid.uuid4(), as rendered by str()
UUID4 == { "3f2b8c1e-7d4a-4c59-9b1f-0a6e5d2c8b71", "c0ffee00-1234-4abc-8def-0123456789ab" }

\* datetime.datetime.utcnow(): one reading with and one without microseconds
UtcNow ==
  { [year |-> 2024, month |-> 3, day |-> 9, hour |-> 7, minute |-> 5, second |-> 2, microsecond |-> 0],
    [year |-> 2024, month |-> 11, day |-> 30, hour |-> 23, minute |-> 59, second |-> 58, microsecond |-> 4210] }

\* datetime.isoformat(): the fraction is left out when microsecond is 0
isoformat(dt) ==
  ZeroPad(dt.year, 4) \o "-" \o ZeroPad(dt.month, 2) \o "-" \o ZeroPad(dt.day, 2) \o "T"
    \o ZeroPad(dt.hour, 2) \o ":" \o ZeroPad(dt.minute, 2) \o ":" \o ZeroPad(dt.second, 2)
    \o (IF dt.microsecond = 0 THEN "" ELSE "." \o ZeroPad(dt.microsecond, 6))

(* ---------------------------------------------------------------------- *)
(* Event templates                                                         *)
(* ---------------------------------------------------------------------- *)

WinEventTypes == << "Login Success", "Login Failed", "Process Creation", "PowerShell" >>
WinProcesses == << "cmd.exe", "powershell.exe", "svchost.exe", "lsass.exe" >>
WinScripts == << "Invoke-WebRequest", "Get-Process", "Net-User" >>

\* evt_id of the branch taken for event_type
WinEvtId(event_type) ==
  IF event_type = "Login Success" THEN 4624
  ELSE IF event_type = "Login Failed" THEN 4625
  ELSE IF event_type = "Process Creation" THEN 4688
  ELSE 4104

\* msg of the branch taken for event_type; each branch makes its own draws
WinMsgs(agent, event_type, user) ==
  IF event_type = "Login Success" THEN
    { "An account was successfully logged on. Subject: Security ID: S-1-5-18, Account Name: "
        \o agent.name \o "$. Account Name: " \o user \o ", Logon Type: 3." }
  ELSE IF event_type = "Login Failed" THEN
    { "An account failed to log on. Account Name: " \o user
        \o ". Failure Reason: Unknown user name or bad password. Source Network Address: "
        \o src_ip \o "." : src_ip \in Choice(EXTERNAL_IPS) }
  ELSE IF event_type = "Process Creation" THEN
    { "A new process has been created. Creator Subject: Account Name: " \o user
        \o ". New Process Name: C:\\Windows\\System32\\" \o proc \o "." : proc \in Choice(WinProcesses) }
  ELSE
    { "Script Block ID: " \o d[2] \o ". Executing: " \o d[1] \o " http://malicious.com/payload.ps1"
        : d \in Choice(WinScripts) \X UUID4 }

\* variant: the "malicious" test is applied in the Login Failed branch as well
WinLevelFailedEscalated(event_type, msg) ==
  IF event_type = "Login Success" THEN "INFO"
  ELSE IF event_type = "Login Failed" THEN "ERROR"
  ELSE IF event_type = "Process Creation" THEN "INFO"
  ELSE IF Contains("malicious", msg) THEN "ERROR" ELSE "WARN"

\* level of the branch taken for event_type, given the rendered msg
WinLevel(event_type, msg) ==
  IF event_type = "Login Success" THEN "INFO"
  ELSE IF event_type = "Login Failed" THEN "WARN"
  ELSE IF event_type = "Process Creation" THEN "INFO"
  ELSE IF Contains("malicious", msg) THEN "ERROR" ELSE "WARN"

\* variant: the agent passed in is used
WinServicePassedAgent(agent) == agent.name

\* the "service" expression of gen_windows_event: the first wazuh-agent of AGENTS
WinService(agent) ==
  SelectSeq(AGENTS, LAMBDA x : x.type = "wazuh-agent")[1].name

WinRecord(agent, event_type, user, msg) ==
  [ service |-> WinService(agent),
    level   |-> WinLevel(event_type, msg),
    message |-> "WinEvtLog: Security: EVENT_ID(" \o ToString(WinEvtId(event_type))
                  \o "): Microsoft-Windows-Security-Auditing: " \o user \o ": "
                  \o agent.name \o ": " \o msg,
    meta    |-> [ agent_name |-> agent.name,
                  event_id   |-> WinEvtId(event_type),
                  category   |-> "Windows Security" ] ]

\* every record gen_windows_event(agent) can return
gen_windows_event(agent) ==
  UNION { { WinRecord(agent, d[1], d[2], msg) : msg \in WinMsgs(agent, d[1], d[2]) }
          : d \in Choice(WinEventTypes) \X Choice(USERS) }

FwActions == << "Allowed", "Denied", "Teardown" >>
FwProtocols == << "TCP", "UDP", "ICMP" >>
FwDstPorts == << 80, 443, 22, 3389, 445 >>

\* variant: port 445 is missing from the critical ports
FirewallLevelNoSmb(action, dst_port) ==
  IF action = "Denied"
    THEN IF dst_port \in {22, 3389} THEN "ERROR" ELSE "WARN"
    ELSE "INFO"

FirewallLevel(action, dst_port) ==
  IF action = "Denied"
    THEN IF dst_port \in {22, 3389, 445} THEN "ERROR" ELSE "WARN"
    ELSE "INFO"

FirewallRecord(agent, action, proto, src_ip, src_port, dst_port, conn) ==
  LET dst_ip == agent.ip
      src == src_ip \o "/" \o ToString(src_port)
      dst == dst_ip \o "/" \o ToString(dst_port)
  IN [ service |-> agent.name,
       level   |-> FirewallLevel(action, dst_port),
       message |-> "%ASA-6-302013: Built " \o Lower(action) \o " " \o proto \o " connection "
                     \o ToString(conn) \o " for outside:" \o src \o " (" \o src \o ") to inside:"
                     \o dst \o " (" \o dst \o ")",
       meta    |-> [ protocol |-> proto,
                     action   |-> action,
                     src_ip   |-> src_ip,
                     dst_port |-> dst_port ] ]

\* src_ip: an external address when the coin is above 0.5, else the fixed internal one
FwSrcIps == UNION { IF c THEN Choice(EXTERNAL_IPS) ELSE { "10.0.0.50" } : c \in CoinFlip }

\* every record gen_firewall_log(agent) can return
gen_firewall_log(agent) ==
  { FirewallRecord(agent, d[1], d[2], d[3], d[4], d[5], d[6])
    : d \in Choice(FwActions) \X Choice(FwProtocols) \X FwSrcIps
              \X RandInt(1024, 65535) \X Choice(FwDstPorts) \X RandInt(10000, 99999) }

threats ==
  << [msg |-> "ET SCAN MSSQL Service default port 1433", cat |-> "Attempted Information Leak", pri |-> 2],
     [msg |-> "ET MALWARE Win32/Spybot.Worm.Variant Data", cat |-> "A Network Trojan was detected", pri |-> 1],
     [msg |-> "GPL ATTACK_RESPONSE id check returned root", cat |-> "Potentially Bad Traffic", pri |-> 2],
     [msg |-> "ET WEB_SERVER Possible SQL Injection Attempt", cat |-> "Web Application Attack", pri |-> 1] >>

\* variant: the priority test is inverted
IdsLevelInverted(threat) ==
  IF threat.pri = 2 THEN "ERROR" ELSE "WARN"

IdsLevel(threat) ==
  IF threat.pri = 1 THEN "ERROR" ELSE "WARN"

IdsRecord(agent, threat, src_ip, sid, src_port) ==
  LET dst_ip == "10.0.0.20"
  IN [ service |-> agent.name,
       level   |-> IdsLevel(threat),
       message |-> "[**] [1:" \o ToString(sid) \o ":1] " \o threat.msg \o " [**] [Classification: "
                     \o threat.cat \o "] [Priority: " \o ToString(threat.pri) \o "] {TCP} "
                     \o src_ip \o ":" \o ToString(src_port) \o " -> " \o dst_ip \o ":80",
       meta    |-> [ category    |-> "Intrusion Detection",
                     threat_name |-> threat.msg,
                     priority    |-> threat.pri,
                     attacker_ip |-> src_ip ] ]

\* every record gen_ids_alert(agent) can return
gen_ids_alert(agent) ==
  { IdsRecord(agent, d[1], d[2], d[3], d[4])
    : d \in Choice(threats) \X Choice(EXTERNAL_IPS) \X RandInt(2000000, 2999999) \X RandInt(1024, 65535) }

SyslogProcs == << "sshd", "sudo", "cron", "systemd" >>
SshStatuses == << "Accepted publickey", "Failed password", "Invalid user" >>
SudoCommands == << "/bin/bash", "/usr/bin/vim /etc/passwd", "apt-get install nmap" >>

\* variant: the root test is not nested under the status test
SshdLevelRootFirst(status, user) ==
  IF user = "root" THEN "ERROR"
  ELSE IF status # "Accepted publickey" THEN "WARN"
  ELSE "INFO"

SshdLevel(status, user) ==
  IF status # "Accepted publickey"
    THEN IF user = "root" THEN "ERROR" ELSE "WARN"
    ELSE "INFO"

SudoLevel(cmd) ==
  IF Contains("passwd", cmd) THEN "WARN" ELSE "INFO"

\* the (msg, level) pairs of the branch taken for proc; each branch makes its own draws
SyslogBodies(proc, pid) ==
  LET tag == proc \o "[" \o ToString(pid) \o "]: "
  IN IF proc = "sshd" THEN
       { [ msg   |-> tag \o d[3] \o " for " \o d[1] \o " from " \o d[2] \o " port "
                       \o ToString(d[4]) \o " ssh2",
           level |-> SshdLevel(d[3], d[1]) ]
         : d \in Choice(USERS \o << "root", "invalid_user" >>) \X Choice(EXTERNAL_IPS)
                   \X Choice(SshStatuses) \X RandInt(1024, 65535) }
     ELSE IF proc = "sudo" THEN
       { [ msg   |-> tag \o d[1] \o " : TTY=pts/0 ; PWD=/home/" \o d[1]
                       \o " ; USER=root ; COMMAND=" \o d[2],
           level |-> SudoLevel(d[2]) ]
         : d \in Choice(USERS) \X Choice(SudoCommands) }
     ELSE
       { [ msg |-> tag \o "Service status checks completed.", level |-> "DEBUG" ] }

SyslogRecord(agent, proc, pid, body) ==
  [ service |-> agent.name,
    level   |-> body.level,
    message |-> body.msg,
    meta    |-> [ process |-> proc, pid |-> pid ] ]

\* every record gen_syslog(agent) can return
gen_syslog(agent) ==
  UNION { { SyslogRecord(agent, d[1], d[2], body) : body \in SyslogBodies(d[1], d[2]) }
          : d \in Choice(SyslogProcs) \X RandInt(1000, 9999) }

(* ---------------------------------------------------------------------- *)
(* json.dumps of an event record                                           *)
(* ---------------------------------------------------------------------- *)

\* the escapes json.dumps applies to the characters that occur in the templates
JsonEscapeChar(c) ==
  IF c = "\\" THEN "\\\\" ELSE IF c = "\"" THEN "\\\"" ELSE c

NeedsEscape(c) == c \in { "\\", "\"" }

\* the string with each such character escaped, one occurrence at a time
RECURSIVE JsonEscape(_)
JsonEscape(s) ==
  IF \A i \in 1..Len(s) : ~NeedsEscape(SubSeq(s, i, i))
    THEN s
    ELSE LET i == CHOOSE j \in 1..Len(s) :
                    /\ NeedsEscape(SubSeq(s, j, j))
                    /\ \A k \in 1..(j - 1) : ~NeedsEscape(SubSeq(s, k, k))
         IN  SubSeq(s, 1, i - 1) \o JsonEscapeChar(SubSeq(s, i, i))
               \o JsonEscape(SubSeq(s, i + 1, Len(s)))

JsonStr(s) == "\"" \o JsonEscape(s) \o "\""

\* the meta dict, its keys in the insertion order of the generator that built it
JsonMeta(meta) ==
  IF "event_id" \in DOMAIN meta THEN
    "{\"agent_name\": " \o JsonStr(meta.agent_name) \o ", \"event_id\": " \o ToString(meta.event_id)
      \o ", \"category\": " \o JsonStr(meta.category) \o "}"
  ELSE IF "protocol" \in DOMAIN meta THEN
    "{\"protocol\": " \o JsonStr(meta.protocol) \o ", \"action\": " \o JsonStr(meta.action)
      \o ", \"src_ip\": " \o JsonStr(meta.src_ip) \o ", \"dst_port\": " \o ToString(meta.dst_port) \o "}"
  ELSE IF "priority" \in DOMAIN meta THEN
    "{\"category\": " \o JsonStr(meta.category) \o ", \"threat_name\": " \o JsonStr(meta.threat_name)
      \o ", \"priority\": " \o ToString(meta.priority) \o ", \"attacker_ip\": "
      \o JsonStr(meta.attacker_ip) \o "}"
  ELSE
    "{\"process\": " \o JsonStr(meta.process) \o ", \"pid\": " \o ToString(meta.pid) \o "}"

\* json.dumps(payload): keys in insertion order, "timestamp" last when present
json_dumps(p) ==
  "{\"service\": " \o JsonStr(p.service) \o ", \"level\": " \o JsonStr(p.level)
    \o ", \"message\": " \o JsonStr(p.message) \o ", \"meta\": " \o JsonMeta(p.meta)
    \o (IF "timestamp" \in DOMAIN p THEN ", \"timestamp\": " \o JsonStr(p.timestamp) ELSE "")
    \o "}"

(* ---------------------------------------------------------------------- *)
(* Outcomes of requests.post and exception classes                         *)
(* ---------------------------------------------------------------------- *)

\* responses the endpoint may give
Responses ==
  { [status_code |-> 200, text |-> "{\"ok\":true}"],
    [status_code |-> 201, text |-> "{\"id\":17}"],
    [status_code |-> 400, text |-> "Bad Request"],
    [status_code |-> 500, text |-> "Internal Server Error"] }

\* exceptions requests.post may raise (all derive from Exception)
TransportErrors ==
  { [type |-> "ConnectionError", text |-> "Connection refused"],
    [type |-> "Timeout", text |-> "Read timed out. (read timeout=2)"] }

\* the signal handler of the runtime raises this one (derives from BaseException only)
KeyboardInterrupt == [type |-> "KeyboardInterrupt", text |-> ""]

\* issubclass(type, Exception)
IsException(e) == e.type \in { "Exception", "ConnectionError", "Timeout" }

\* variant: "except requests.ConnectionError as e"
SendLogCatchesConnectionOnly(e) == e.type = "ConnectionError"

\* variant: a bare "except:"
SendLogCatchesAll(e) == TRUE

\* "except Exception as e" of send_log
SendLogCatches(e) == IsException(e)

\* "except KeyboardInterrupt" of main
MainCatches(e) == e.type = "KeyboardInterrupt"

(* ---------------------------------------------------------------------- *)
(* State                                                                   *)
(* ---------------------------------------------------------------------- *)

VARIABLES
  state,        \* "RUNNING", "STOPPED" (sys.exit(0)) or "CRASHED" (uncaught exception)
  pc,           \* position of the single thread of control
  agent,        \* local of main: the agent picked in this iteration
  generator,    \* name of the generator called in this iteration
  payload,      \* local of main: the record of this iteration, while it is live
  request,      \* the POST of the current send_log call
  response,     \* local of send_log: the response of the POST
  exc,          \* local of send_log: the exception bound by its handler
  console,      \* lines printed since the top of the current iteration
  delay,        \* duration of the time.sleep in progress, 0 when not sleeping
  exit_status,  \* << >> while the process lives, << code >> once it has exited
  iter,         \* completed iterations
  gens,         \* generator calls so far
  calls,        \* send_log calls so far
  posts,        \* POST requests issued so far
  nlines,       \* console lines printed so far
  fails,        \* send_log calls so far that reported a status or an error line
  sigint        \* position at which SIGINT was delivered, "none" before that

vars == << state, pc, agent, generator, payload, request, response, exc, console, delay,
           exit_status, iter, gens, calls, posts, nlines, fails, sigint >>

\* a local variable that is not bound
Unbound == [unbound |-> TRUE]

IsBound(v) == "unbound" \notin DOMAIN v

\* positions inside the try body of send_log
TryBody == { "stamp", "post", "await", "report" }

\* positions inside send_log
InSendLog == TryBody \cup { "except" }

\* positions inside the try block of main
LoopPcs == { "pick", "dispatch", "sleep", "sleeping" } \cup InSendLog

\* main up to the try block: the three banner lines are printed
Init ==
  /\ state = "RUNNING"
  /\ pc = "pick"
  /\ agent = Unbound
  /\ generator = "none"
  /\ payload = Unbound
  /\ request = Unbound
  /\ response = Unbound
  /\ exc = Unbound
  /\ console = << >>
  /\ delay = 0
  /\ exit_status = << >>
  /\ iter = 0
  /\ gens = 0
  /\ calls = 0
  /\ posts = 0
  /\ nlines = 3
  /\ fails = 0
  /\ sigint = "none"

(* ---------------------------------------------------------------------- *)
(* Dispatcher                                                              *)
(* ---------------------------------------------------------------------- *)

\* variant: the OS string of a wazuh-agent is not looked at
RouteByTypeOnly(a) ==
  IF a.type = "wazuh-agent" THEN "gen_windows_event"
  ELSE IF a.type = "firewall" THEN "gen_firewall_log"
  ELSE IF a.type = "ids" THEN "gen_ids_alert"
  ELSE "gen_syslog"

\* the generator the if/elif chain of main calls for the agent
Route(a) ==
  IF a.type = "wazuh-agent"
    THEN IF Contains("Windows", a.os) THEN "gen_windows_event" ELSE "gen_syslog"
  ELSE IF a.type = "firewall" THEN "gen_firewall_log"
  ELSE IF a.type = "ids" THEN "gen_ids_alert"
  ELSE "gen_syslog"

\* the records the named generator can return for the agent
Call(g, a) ==
  CASE g = "gen_windows_event" -> gen_windows_event(a)
    [] g = "gen_firewall_log"  -> gen_firewall_log(a)
    [] g = "gen_ids_alert"     -> gen_ids_alert(a)
    [] g = "gen_syslog"        -> gen_syslog(a)

\* agent = random.choice(AGENTS)
PickAgent ==
  /\ state = "RUNNING"
  /\ pc = "pick"
  /\ iter < MaxIter
  /\ \E a \in Choice(AGENTS) : agent' = a
  /\ pc' = "dispatch"
  /\ console' = << >>
  /\ UNCHANGED sigint
  /\ UNCHANGED << state, generator, payload, request, response, exc, delay, exit_status,
                  iter, gens, calls, posts, nlines, fails >>

\* payload = gen_...(agent)
Dispatch ==
  /\ state = "RUNNING"
  /\ pc = "dispatch"
  /\ generator' = Route(agent)
  /\ \E r \in Call(Route(agent), agent) : payload' = r
  /\ gens' = gens + 1
  /\ pc' = "stamp"
  /\ UNCHANGED sigint
  /\ UNCHANGED << state, agent, request, response, exc, console, delay, exit_status,
                  iter, calls, posts, nlines, fails >>

(* ---------------------------------------------------------------------- *)
(* Exception propagation                                                   *)
(* ---------------------------------------------------------------------- *)

\* An exception e is raised at the current position.  Inside the try body of
\* send_log the handler of send_log gets it first; what it does not catch goes
\* to the handler of main; what main does not catch ends the process.  The
\* locals of the frames that are left go with them.
Unwind(e) ==
  IF pc \in TryBody /\ SendLogCatches(e) THEN
    /\ pc' = "except"
    /\ exc' = e
    /\ UNCHANGED << state, console, exit_status, nlines, request, response, payload,
                    agent, generator >>
  ELSE IF MainCatches(e) THEN
    /\ state' = "STOPPED"
    /\ pc' = "exited"
    /\ console' = Append(console, "\n[*] Stopping simulator.")
    /\ nlines' = nlines + 1
    /\ exit_status' = << 0 >>
    /\ request' = Unbound
    /\ response' = Unbound
    /\ exc' = Unbound
    /\ payload' = Unbound
    /\ agent' = Unbound
    /\ generator' = "none"
  ELSE
    /\ state' = "CRASHED"
    /\ pc' = "exited"
    /\ console' = Append(console, "Traceback (most recent call last): " \o e.type)
    /\ nlines' = nlines + 1
    /\ exit_status' = << 1 >>
    /\ request' = Unbound
    /\ response' = Unbound
    /\ exc' = Unbound
    /\ payload' = Unbound
    /\ agent' = Unbound
    /\ generator' = "none"

(* ---------------------------------------------------------------------- *)
(* Sender                                                                  *)
(* ---------------------------------------------------------------------- *)

\* payload["timestamp"] = value
SetTimestamp(p, value) ==
  [ k \in DOMAIN p \cup { "timestamp" } |-> IF k = "timestamp" THEN value ELSE p[k] ]

\* variant: the "Z" suffix is left out
TimestampNoZ(now) == isoformat(now)

\* the value send_log stores under "timestamp"
Timestamp(now) == isoformat(now) \o "Z"

\* send_log is entered: payload["timestamp"] = utcnow().isoformat() + "Z"
Stamp ==
  /\ state = "RUNNING"
  /\ pc = "stamp"
  /\ \E now \in UtcNow : payload' = SetTimestamp(payload, Timestamp(now))
  /\ calls' = calls + 1
  /\ pc' = "post"
  /\ UNCHANGED sigint
  /\ UNCHANGED << state, agent, generator, request, response, exc, console, delay,
                  exit_status, iter, gens, posts, nlines, fails >>

\* requests.post(API_URL, data=json.dumps(payload), headers=headers, timeout=2) goes out
PostSend ==
  /\ state = "RUNNING"
  /\ pc = "post"
  /\ request' = [ url     |-> API_URL,
                  record  |-> payload,
                  data    |-> json_dumps(payload),
                  headers |-> [ ContentType |-> "application/json" ],
                  timeout |-> POST_TIMEOUT ]
  /\ posts' = posts + 1
  /\ pc' = "await"
  /\ UNCHANGED sigint
  /\ UNCHANGED << state, agent, generator, payload, response, exc, console, delay,
                  exit_status, iter, gens, calls, nlines, fails >>

\* requests.post returns a response
PostReturn ==
  /\ state = "RUNNING"
  /\ pc = "await"
  /\ \E r \in Responses : response' = r
  /\ pc' = "report"
  /\ UNCHANGED sigint
  /\ UNCHANGED << state, agent, generator, payload, request, exc, console, delay,
                  exit_status, iter, gens, calls, posts, nlines, fails >>

\* requests.post raises a transport-level exception
PostRaise ==
  /\ state = "RUNNING"
  /\ pc = "await"
  /\ \E e \in TransportErrors : Unwind(e)
  /\ UNCHANGED sigint
  /\ UNCHANGED << delay, iter, gens, calls, posts, fails >>

\* variant: only status 200 counts as success
ResponseLineOnly200(r, p) ==
  IF r.status_code = 200
    THEN "[+] Sent " \o p.level \o " log from " \o p.service
    ELSE "[-] Status " \o ToString(r.status_code) \o ": " \o r.text

\* the line send_log prints for a response
ResponseLine(r, p) ==
  IF r.status_code \in { 200, 201 }
    THEN "[+] Sent " \o p.level \o " log from " \o p.service
    ELSE "[-] Status " \o ToString(r.status_code) \o ": " \o r.text

\* the line the handler of send_log prints
ErrorLine(e) == "[!] Error sending log: " \o e.text

\* the if/else on response.status_code, then send_log returns; the record is
\* not read again after the call
Report ==
  /\ state = "RUNNING"
  /\ pc = "report"
  /\ console' = Append(console, ResponseLine(response, payload))
  /\ nlines' = nlines + 1
  /\ fails' = IF response.status_code \in { 200, 201 } THEN fails ELSE fails + 1
  /\ request' = Unbound
  /\ response' = Unbound
  /\ payload' = Unbound
  /\ pc' = "sleep"
  /\ UNCHANGED sigint
  /\ UNCHANGED << state, agent, generator, exc, delay, exit_status,
                  iter, gens, calls, posts >>

\* the body of "except Exception as e", then send_log returns
ReportError ==
  /\ state = "RUNNING"
  /\ pc = "except"
  /\ console' = Append(console, ErrorLine(exc))
  /\ nlines' = nlines + 1
  /\ fails' = fails + 1
  /\ request' = Unbound
  /\ exc' = Unbound
  /\ payload' = Unbound
  /\ pc' = "sleep"
  /\ UNCHANGED sigint
  /\ UNCHANGED << state, agent, generator, response, delay, exit_status,
                  iter, gens, calls, posts >>

(* ---------------------------------------------------------------------- *)
(* Driver loop                                                             *)
(* ---------------------------------------------------------------------- *)

\* time.sleep(random.uniform(INTERVAL_MIN, INTERVAL_MAX)) is called
Sleep ==
  /\ state = "RUNNING"
  /\ pc = "sleep"
  /\ \E d \in Uniform(INTERVAL_MIN, INTERVAL_MAX) : delay' = d
  /\ pc' = "sleeping"
  /\ UNCHANGED sigint
  /\ UNCHANGED << state, agent, generator, payload, request, response, exc, console,
                  exit_status, iter, gens, calls, posts, nlines, fails >>

\* time.sleep returns and the loop goes back to its top
Wake ==
  /\ state = "RUNNING"
  /\ pc = "sleeping"
  /\ delay' = 0
  /\ iter' = iter + 1
  /\ agent' = Unbound
  /\ generator' = "none"
  /\ pc' = "pick"
  /\ UNCHANGED sigint
  /\ UNCHANGED << state, payload, request, response, exc, console,
                  exit_status, gens, calls, posts, nlines, fails >>

\* Ctrl+C: KeyboardInterrupt is raised at whatever position the loop is in
Interrupt ==
  /\ state = "RUNNING"
  /\ pc \in LoopPcs
  /\ Unwind(KeyboardInterrupt)
  /\ sigint' = pc
  /\ UNCHANGED << delay, iter, gens, calls, posts, fails >>

Next ==
  \/ PickAgent
  \/ Dispatch
  \/ Stamp
  \/ PostSend
  \/ PostReturn
  \/ PostRaise
  \/ Report
  \/ ReportError
  \/ Sleep
  \/ Wake
  \/ Interrupt

Spec == Init /\ [][Next]_vars

TypeOK ==
  /\ state \in { "RUNNING", "STOPPED", "CRASHED" }
  /\ pc \in LoopPcs \cup { "exited" }
  /\ iter \in 0..MaxIter

(* ---------------------------------------------------------------------- *)
(* Properties                                                              *)
(* ---------------------------------------------------------------------- *)

ShutdownLine == "\n[*] Stopping simulator."

\* positions at which the record of the iteration is held by main or send_log
HasRecord == state = "RUNNING" /\ pc \in InSendLog

\* the record as its generator returned it
FreshRecord == state = "RUNNING" /\ pc = "stamp"

\* C1: a send_log call issues one POST and prints one line, the success line
\* for status 200 or 201, the status line for any other status, the error
\* line for a transport failure; the call then returns, nothing is sent
\* again and the loop goes on to its sleep.
C1_OnePostOneLine ==
  /\ [](/\ state # "CRASHED"
        /\ state = "RUNNING" /\ pc \in { "stamp", "sleep", "sleeping" }
             => calls = posts /\ nlines = 3 + calls
        /\ state = "RUNNING" /\ pc = "post" => calls = posts + 1 /\ nlines + 1 = 3 + calls
        /\ state = "RUNNING" /\ pc \in { "await", "report", "except" }
             => calls = posts /\ nlines + 1 = 3 + calls
        /\ state = "RUNNING" /\ pc \in { "sleep", "sleeping" }
             => calls = iter + 1 /\ Len(console) = 1)
  /\ [][/\ pc = "await" /\ sigint' = "none"
             => /\ state' = "RUNNING"
                /\ pc' \in { "report", "except" }
                /\ pc' = "except" <=> IsBound(exc')
                /\ pc' = "report" <=> IsBound(response')
        /\ pc = "report" /\ sigint' = "none"
             => /\ state' = "RUNNING" /\ pc' = "sleep" /\ posts' = posts
                /\ response.status_code \in { 200, 201 }
                     => console' = << "[+] Sent " \o payload.level \o " log from "
                                        \o payload.service >>
                /\ response.status_code \notin { 200, 201 }
                     => console' = << "[-] Status " \o ToString(response.status_code)
                                        \o ": " \o response.text >>
        /\ pc = "except" /\ sigint' = "none"
             => /\ state' = "RUNNING" /\ pc' = "sleep" /\ posts' = posts
                /\ console' = << "[!] Error sending log: " \o exc.text >>
        /\ pc = "sleep" /\ sigint' = "none" => pc' = "sleeping" /\ posts' = posts
       ]_vars

\* a transport failure was reported with one error line after one POST, and
\* the loop is at its sleep
C1_Witness ==
  /\ state = "RUNNING" /\ pc = "sleep"
  /\ console = << "[!] Error sending log: Connection refused" >>
  /\ posts = calls /\ calls = 2 /\ fails >= 1

\* C2: the loop starts RUNNING; it leaves RUNNING only by an interrupt, to
\* STOPPED with exit status 0; nothing else ends it; each tick goes
\* dispatcher, sender, sleep in that order.
C2_StopOnlyOnInterrupt ==
  /\ state = "RUNNING" /\ pc = "pick"
  /\ [](/\ state \in { "RUNNING", "STOPPED" }
        /\ state = "STOPPED" <=> sigint # "none"
        /\ state = "STOPPED" <=> exit_status = << 0 >>
        /\ state = "RUNNING" <=> exit_status = << >>)
  /\ [][sigint' = "none" =>
          /\ state' = "RUNNING"
          /\ << pc, pc' >> \in { << "pick", "dispatch" >>, << "dispatch", "stamp" >>,
                                 << "stamp", "post" >>, << "post", "await" >>,
                                 << "await", "report" >>, << "await", "except" >>,
                                 << "report", "sleep" >>, << "except", "sleep" >>,
                                 << "sleep", "sleeping" >>, << "sleeping", "pick" >> }
          /\ gens' >= gens /\ calls' >= calls /\ calls' <= gens'
       ]_vars

\* a full tick went by with a failed send and the loop is RUNNING at its top
C2_Witness ==
  /\ state = "RUNNING" /\ pc = "pick" /\ iter = 2 /\ fails = 2 /\ sigint = "none"

\* the generator the routing rule names for each agent of the static list
ExpectedGenerator(name) ==
  CASE name = "Win-DC01"         -> "gen_windows_event"
    [] name = "Win-FileServer"   -> "gen_windows_event"
    [] name = "Ubuntu-Web01"     -> "gen_syslog"
    [] name = "Gateway-Firewall" -> "gen_firewall_log"
    [] name = "Core-Switch"      -> "gen_syslog"
    [] name = "Suricata-IDS"     -> "gen_ids_alert"

\* the meta keys of the records of each generator
MetaKeys(g) ==
  CASE g = "gen_windows_event" -> { "agent_name", "event_id", "category" }
    [] g = "gen_firewall_log"  -> { "protocol", "action", "src_ip", "dst_port" }
    [] g = "gen_ids_alert"     -> { "category", "threat_name", "priority", "attacker_ip" }
    [] g = "gen_syslog"        -> { "process", "pid" }

\* C3: each agent of the list is routed to the one generator the rule names
\* (Windows wazuh-agent: host; other wazuh-agent: syslog; firewall: firewall;
\* ids: IDS; any other type: syslog), and one generator call yields one
\* record per iteration.
C3_RoutingTotal ==
  /\ state = "RUNNING" /\ pc \notin { "pick" }
       => /\ IsBound(agent)
          /\ agent.name \in { "Win-DC01", "Win-FileServer", "Ubuntu-Web01",
                              "Gateway-Firewall", "Core-Switch", "Suricata-IDS" }
  /\ state = "RUNNING" /\ pc \in { "pick", "dispatch" }
       => gens = iter /\ ~IsBound(payload)
  /\ state = "RUNNING" /\ pc \notin { "pick", "dispatch" }
       => gens = iter + 1 /\ generator = ExpectedGenerator(agent.name)
  /\ HasRecord
       => /\ IsBound(payload)
          /\ DOMAIN payload.meta = MetaKeys(ExpectedGenerator(agent.name))

\* the "network" agent got a syslog record
C3_Witness ==
  /\ FreshRecord /\ agent.name = "Core-Switch" /\ agent.type = "network"
  /\ generator = "gen_syslog" /\ payload.meta.process = "cron"

\* C4: a firewall record has level ERROR when action is Denied and the
\* destination port is 22, 3389 or 445, WARN when action is Denied and the
\* port is another one, INFO when action is Allowed or Teardown.
C4_FirewallLevel ==
  HasRecord /\ generator = "gen_firewall_log" =>
    /\ payload.meta.action \in { "Allowed", "Denied", "Teardown" }
    /\ payload.meta.dst_port \in { 80, 443, 22, 3389, 445 }
    /\ payload.meta.action = "Denied" /\ payload.meta.dst_port \in { 22, 3389, 445 }
         => payload.level = "ERROR"
    /\ payload.meta.action = "Denied" /\ payload.meta.dst_port \notin { 22, 3389, 445 }
         => payload.level = "WARN"
    /\ payload.meta.action \in { "Allowed", "Teardown" } => payload.level = "INFO"

\* Gateway-Firewall, Denied, port 3389: ERROR, in the ASA template
C4_Witness ==
  /\ FreshRecord /\ agent.name = "Gateway-Firewall"
  /\ payload.meta.action = "Denied" /\ payload.meta.dst_port = 3389
  /\ payload.level = "ERROR"
  /\ Contains("%ASA-6-302013: Built denied ", payload.message)
  /\ EndsWith(payload.message, "to inside:192.168.1.1/3389 (192.168.1.1/3389)")

\* the branches of the sshd template a message can come from
SshdDraws ==
  { d \in Choice(SshStatuses) \X Choice(USERS \o << "root", "invalid_user" >>) :
      Contains("]: " \o d[1] \o " for " \o d[2] \o " from ", payload.message) }

\* the commands of the sudo template a message can come from
SudoDraws ==
  { cmd \in Choice(SudoCommands) : EndsWith(payload.message, " ; COMMAND=" \o cmd) }

\* C5: a syslog record has, for sshd, level ERROR iff the outcome is not
\* "Accepted publickey" and the user is root, WARN iff the outcome is not
\* "Accepted publickey" and the user is not root, INFO iff the outcome is
\* "Accepted publickey"; for sudo, WARN iff the command contains "passwd",
\* else INFO; for cron and systemd, DEBUG.
C5_SyslogLevel ==
  FreshRecord /\ generator = "gen_syslog" =>
    /\ payload.meta.process \in { "sshd", "sudo", "cron", "systemd" }
    /\ payload.meta.process = "sshd" =>
         /\ Cardinality(SshdDraws) = 1
         /\ \A d \in SshdDraws :
              /\ payload.level = "ERROR" <=> (d[1] # "Accepted publickey" /\ d[2] = "root")
              /\ payload.level = "WARN" <=> (d[1] # "Accepted publickey" /\ d[2] # "root")
              /\ payload.level = "INFO" <=> d[1] = "Accepted publickey"
    /\ payload.meta.process = "sudo" =>
         /\ Cardinality(SudoDraws) = 1
         /\ \A cmd \in SudoDraws :
              /\ payload.level = "WARN" <=> Contains("passwd", cmd)
              /\ payload.level = "INFO" <=> ~Contains("passwd", cmd)
    /\ payload.meta.process \in { "cron", "systemd" } => payload.level = "DEBUG"

\* an accepted root login is INFO
C5_Witness ==
  /\ FreshRecord /\ generator = "gen_syslog" /\ payload.meta.process = "sshd"
  /\ Contains("Accepted publickey for root from ", payload.message)
  /\ payload.level = "INFO"

\* C6: an IDS record names one of the four catalog entries and has level
\* ERROR iff its priority is 1 and WARN otherwise, never INFO or DEBUG.
C6_IdsLevel ==
  HasRecord /\ generator = "gen_ids_alert" =>
    /\ \E i \in 1..4 : /\ threats[i].msg = payload.meta.threat_name
                       /\ threats[i].pri = payload.meta.priority
    /\ payload.meta.priority \in { 1, 2 }
    /\ payload.level = "ERROR" <=> payload.meta.priority = 1
    /\ payload.level = "WARN" <=> payload.meta.priority # 1
    /\ payload.level \notin { "INFO", "DEBUG" }

\* a priority-2 entry gave WARN
C6_Witness ==
  /\ FreshRecord /\ generator = "gen_ids_alert"
  /\ payload.meta.threat_name = "GPL ATTACK_RESPONSE id check returned root"
  /\ payload.meta.priority = 2 /\ payload.level = "WARN"

\* C7: a host record has level INFO for event 4624, WARN for 4625 with an
\* address of the external pool in its message, INFO for 4688, and for 4104
\* ERROR when the message contains "malicious" and WARN when not; ERROR
\* occurs for 4104 only.
C7_WindowsLevel ==
  HasRecord /\ generator = "gen_windows_event" =>
    /\ payload.meta.event_id \in { 4624, 4625, 4688, 4104 }
    /\ payload.meta.event_id = 4624 => payload.level = "INFO"
    /\ payload.meta.event_id = 4625 =>
         /\ payload.level = "WARN"
         /\ \E ip \in Choice(EXTERNAL_IPS) :
              EndsWith(payload.message, "Source Network Address: " \o ip \o ".")
    /\ payload.meta.event_id = 4688 => payload.level = "INFO"
    /\ payload.meta.event_id = 4104 =>
         payload.level = IF Contains("malicious", payload.message) THEN "ERROR" ELSE "WARN"
    /\ payload.level = "ERROR" => payload.meta.event_id = 4104

\* a failed login from 8.8.8.8 is WARN
C7_Witness ==
  /\ FreshRecord /\ generator = "gen_windows_event" /\ payload.meta.event_id = 4625
  /\ payload.level = "WARN"
  /\ EndsWith(payload.message, "Source Network Address: 8.8.8.8.")

\* a PowerShell record is ERROR
C7_WitnessPowerShell ==
  /\ FreshRecord /\ generator = "gen_windows_event" /\ payload.meta.event_id = 4104
  /\ payload.level = "ERROR" /\ Contains("malicious", payload.message)

StampedOK(p) ==
  /\ DOMAIN p = { "service", "level", "message", "meta", "timestamp" }
  /\ Len(p.timestamp) > 1
  /\ EndsWith(p.timestamp, "Z")

\* C9: a record as returned by a generator has the fields service, level,
\* message, meta and no timestamp; the record of every POST has a non-empty
\* timestamp ending in "Z", set by the same send_log call before the POST.
C9_TimestampBySender ==
  /\ [](/\ FreshRecord => DOMAIN payload = { "service", "level", "message", "meta" }
        /\ state = "RUNNING" /\ pc \in { "post", "await", "report", "except" }
             => StampedOK(payload)
        /\ state = "RUNNING" /\ pc \in { "await", "report", "except" }
             => /\ IsBound(request)
                /\ request.record = payload
                /\ EndsWith(request.data, ", \"timestamp\": \"" \o payload.timestamp \o "\"}"))
  /\ [][/\ posts' # posts => pc = "post" /\ StampedOK(payload) /\ request'.record = payload
        /\ (IsBound(payload) /\ IsBound(payload') /\ payload' # payload)
             => /\ pc = "stamp" /\ pc' = "post" /\ calls' = calls + 1
                /\ "timestamp" \notin DOMAIN payload
                /\ \A k \in DOMAIN payload : payload'[k] = payload[k]
       ]_vars

\* after an earlier failed send, a stamped record is on the wire
C9_Witness ==
  /\ state = "RUNNING" /\ pc = "await" /\ iter = 1 /\ fails = 1
  /\ payload.timestamp = "2024-03-09T07:05:02Z"
  /\ request.record.timestamp = "2024-03-09T07:05:02Z"

\* C10: an interrupt at any position of an iteration stops the loop with the
\* shutdown line and exit status 0; the handler of send_log does not take it,
\* no error line is printed for it and no POST follows it.
C10_InterruptStops ==
  /\ [][sigint' # sigint =>
          /\ sigint = "none" /\ sigint' = pc
          /\ state = "RUNNING" /\ state' = "STOPPED"
          /\ pc' = "exited"
          /\ exit_status' = << 0 >>
          /\ console' = Append(console, ShutdownLine)
          /\ nlines' = nlines + 1
          /\ posts' = posts /\ calls' = calls
          /\ ~IsBound(exc')
       ]_vars
  /\ [][sigint # "none" => posts' = posts /\ nlines' = nlines /\ state' = "STOPPED"]_vars
  /\ [](state = "RUNNING" /\ pc \in LoopPcs => ENABLED Interrupt)

\* stopped by an interrupt during the network call
C10_Witness ==
  /\ state = "STOPPED" /\ sigint = "await" /\ exit_status = << 0 >>
  /\ console = << ShutdownLine >> /\ posts = calls /\ calls = iter + 1

\* stopped by an interrupt inside the handler of send_log
C10_WitnessHandler ==
  /\ state = "STOPPED" /\ sigint = "except" /\ exit_status = << 0 >>
  /\ console = << ShutdownLine >>

====
